---- MODULE Spec2Model ----
(***************************************************************************)
(* A model of the statistical estimation core of MATH565CourseCodes:       *)
(* meanMC_CLT, binomialCI and quantileCI as the notebooks define them.     *)
(*                                                                         *)
(* Numbers.  numpy computes in float64 and int64; TLC has 32-bit integers  *)
(* and no reals.  The model computes exactly, on rationals:                *)
(*   - a float that may be irrational (a standard deviation, the ratio     *)
(*     z*sigmaUpBound/tol) is kept as its sign and its square, a reduced   *)
(*     fraction: [k |-> "fin", s |-> sign, n |-> num, d |-> den] stands    *)
(*     for s*sqrt(n/d).  Products and quotients of such numbers are again  *)
(*     of this form, and ceil is decided exactly by comparing squares;     *)
(*   - an integer-valued float (after np.ceil) is [k |-> "fin", v |-> i];  *)
(*   - IEEE's non-finite values are [k |-> "inf", s |-> sign] and          *)
(*     [k |-> "nan"];                                                      *)
(*   - int64 is scaled down to IntBits bits (Int64Max == 2^IntBits - 1).   *)
(* A sample vector is kept as its histogram: [Values -> Nat], the number   *)
(* of observations of each value.                                          *)
(***************************************************************************)
EXTENDS Integers, Sequences, FiniteSets, TLC

\* ------------------------------------------------------------- bounds
\* Observations take the values 0..MaxVal.
MaxVal == 2
\* The width int64 is scaled down to (TLC's integers have 32 bits).
IntBits == 20

Values == 0..MaxVal
Int64Max == 2^IntBits - 1
Int64Min == -(2^IntBits)

\* ------------------------------------------------- exact arithmetic
RECURSIVE Gcd(_, _)
Gcd(a, b) == IF b = 0 THEN a ELSE Gcd(b, a % b)

Abs(i) == IF i < 0 THEN -i ELSE i
Sign(i) == IF i < 0 THEN -1 ELSE IF i = 0 THEN 0 ELSE 1

\* The reduced fraction n/d (n >= 0, d > 0).
Frac(n, d) == LET g == Gcd(n, d) IN [n |-> n \div g, d |-> d \div g]

\* The product of two reduced fractions, reduced crosswise before multiplying.
FracMul(a, b) ==
    LET g1 == Gcd(a.n, b.d)
        g2 == Gcd(b.n, a.d)
    IN  Frac((a.n \div g1) * (b.n \div g2), (a.d \div g2) * (b.d \div g1))

CeilDiv(n, d) == (n + d - 1) \div d

\* The least k in lo..hi with k*k >= m (hi*hi >= m is given).
RECURSIVE CeilSqrtIn(_, _, _)
CeilSqrtIn(m, lo, hi) ==
    IF lo >= hi THEN hi
    ELSE LET mid == (lo + hi) \div 2
         IN  IF mid * mid >= m THEN CeilSqrtIn(m, lo, mid)
             ELSE CeilSqrtIn(m, mid + 1, hi)

\* ceil(sqrt(m)) and floor(sqrt(m)) of a natural number m < 2^31.
CeilSqrt(m) == CeilSqrtIn(m, 0, 46340)
FloorSqrt(m) == LET c == CeilSqrt(m) IN IF c * c = m THEN c ELSE c - 1

\* ------------------------------------------------------ float64 values
NaN == [k |-> "nan"]
Inf(s) == [k |-> "inf", s |-> s]
\* s*sqrt(n/d)
Root(s, n, d) ==
    IF s = 0 \/ n = 0 THEN [k |-> "fin", s |-> 0, n |-> 0, d |-> 1]
    ELSE LET f == Frac(n, d) IN [k |-> "fin", s |-> s, n |-> f.n, d |-> f.d]
\* the rational p/q (q > 0) as a float
Rat(p, q) == Root(Sign(p), p * p, q * q)
IntF(i) == [k |-> "fin", v |-> i]

\* x * y in IEEE arithmetic: NaN is contagious and inf * 0 is NaN.
FMul(x, y) ==
    IF x.k = "nan" \/ y.k = "nan" THEN NaN
    ELSE IF x.k = "inf" \/ y.k = "inf"
         THEN IF x.s = 0 \/ y.s = 0 THEN NaN ELSE Inf(x.s * y.s)
    ELSE IF x.s = 0 \/ y.s = 0 THEN Root(0, 0, 1)
    ELSE LET f == FracMul([n |-> x.n, d |-> x.d], [n |-> y.n, d |-> y.d])
         IN  [k |-> "fin", s |-> x.s * y.s, n |-> f.n, d |-> f.d]

\* x / y for a finite y, as numpy divides float64 scalars: a division by zero
\* raises nothing, it gives inf (NaN for 0/0) and a RuntimeWarning.
FDiv(x, y) ==
    IF x.k = "nan" THEN NaN
    ELSE IF y.s = 0 THEN (IF x.s = 0 THEN NaN ELSE Inf(x.s))
    ELSE IF x.k = "inf" THEN Inf(x.s * y.s)
    ELSE FMul(x, [k |-> "fin", s |-> y.s, n |-> y.d, d |-> y.n])

\* np.ceil: the least integer >= x, as an integer-valued float.
FCeil(x) ==
    IF x.k # "fin" THEN x
    ELSE IF x.s >= 0 THEN IntF(CeilSqrt(CeilDiv(x.n, x.d)))
    ELSE IntF(-FloorSqrt(x.n \div x.d))

\* np.power(x, 2) of an integer-valued float.
FPow2(x) ==
    IF x.k = "nan" THEN NaN
    ELSE IF x.k = "inf" THEN Inf(1)
    ELSE IntF(x.v * x.v)

\* The outcomes of float64 -> int64 (.astype(int)).  A finite value in range is
\* converted exactly.  Out of range, inf and NaN are undefined in C: x86-64
\* returns the "integer indefinite" Int64Min for all of them, AArch64
\* saturates (and turns NaN into 0).
AsTypeInt(x) ==
    IF x.k = "nan" THEN {Int64Min, 0}
    ELSE IF x.k = "inf"
         THEN (IF x.s > 0 THEN {Int64Min, Int64Max} ELSE {Int64Min})
    ELSE IF x.v > Int64Max THEN {Int64Min, Int64Max}
    ELSE IF x.v < Int64Min THEN {Int64Min}
    ELSE {x.v}

\* Python's max(a, b) of two integers.
Max(a, b) == IF b > a THEN b ELSE a

\* ------------------------------------------------------ library functions
\* scipy's norm.ppf(q), q given in 200ths (q = 200 - a is 1 - alpha/2 for
\* alpha = a/100), to three decimals: NaN outside [0,1], -inf at 0, +inf at 1.
NormPpfMilli(q) ==
    CASE q = 100 -> 0
      [] q \in {150, 50} -> 674
      [] q \in {190, 10} -> 1645
      [] q \in {195, 5} -> 1960
      [] q \in {199, 1} -> 2576
      [] OTHER -> 0
NormPpf(q) ==
    IF q < 0 \/ q > 200 THEN NaN
    ELSE IF q = 0 THEN Inf(-1)
    ELSE IF q = 200 THEN Inf(1)
    ELSE Rat((IF q < 100 THEN -1 ELSE 1) * NormPpfMilli(q), 1000)

\* The number of observations of a vector, and the sums of its observations
\* and of their squares.
RECURSIVE SumUpTo(_, _, _)
SumUpTo(h, p, v) ==
    IF v < 0 THEN 0
    ELSE h[v] * (CASE p = 0 -> 1 [] p = 1 -> v [] OTHER -> v * v)
         + SumUpTo(h, p, v - 1)
Count(h) == SumUpTo(h, 0, MaxVal)
Sum1(h) == SumUpTo(h, 1, MaxVal)
Sum2(h) == SumUpTo(h, 2, MaxVal)

\* np.mean(Y): the sum over the count, a reduced fraction.
NpMean(h) == Frac(Sum1(h), Count(h))

\* np.std(Y, ddof = 1): sqrt((sum of squared deviations) / (n - 1)), which is
\* sqrt((n*S2 - S1^2) / (n*(n - 1))); NaN for one observation (0/0).
NpStd(h) ==
    LET n == Count(h)
    IN  IF n < 2 THEN NaN
        ELSE Root(1, n * Sum2(h) - Sum1(h) * Sum1(h), n * (n - 1))

\* ------------------------------------------------------ the sampling function
\* inputRandomFuc(n) is the caller's: it returns n observations or raises.
\* The vectors it may return for a count n: all observations equal, half of
\* them a and the rest b, or all of them a but one.
ConstVec(n, a) == [v \in Values |-> IF v = a THEN n ELSE 0]
SplitVec(n, a, b) ==
    [v \in Values |-> IF v = a THEN n \div 2 ELSE IF v = b THEN n - n \div 2 ELSE 0]
OutlierVec(n, a, b) ==
    [v \in Values |-> IF v = a THEN n - 1 ELSE IF v = b THEN 1 ELSE 0]
SampleVectors(n) ==
    {ConstVec(n, a) : a \in Values}
    \cup {SplitVec(n, p[1], p[2]) : p \in {q \in Values \X Values : q[1] # q[2]}}
    \cup {OutlierVec(n, p[1], p[2]) : p \in {q \in Values \X Values : q[1] # q[2]}}

\* A vector of Int64Max observations cannot be held in memory: the sampling
\* function can only raise for it.
CanReturn(n) == n >= 1 /\ n < Int64Max

\* ------------------------------------------------------ meanMC_CLT
\* Tolerances are given in thousandths, alpha in hundredths.
AbsTols == {-10, 0, 2, 10, 100}
RelTols == {-10, 0, 50}
Alphas == {-5, 0, 1, 5, 10, 100, 150}

nsig == 1000
\* inflate = 1.2
inflate == Rat(12, 10)

None == [k |-> "none"]

VARIABLES
    fn,        \* the routine being called: "none", "meanMC_CLT", "binomialCI", "quantileCI",
               \* "TwoBestWin"
    pc,        \* where the call is: "idle", inside the routine, "returned", "raised"
    absTol, relTol, alpha,   \* the arguments of the running meanMC_CLT call
    calls,     \* the counts requested from inputRandomFuc during the call, in order
    YY,        \* the pilot sample
    sigma,     \* np.std(YY, ddof = 1)
    hum,       \* np.mean(YY)
    nmu,       \* the size of the second sample
    Y2,        \* the second sample, inputRandomFuc(nmu)
    mu,        \* np.mean of the second sample
    nSample,   \* nsig + nmu
    ret,       \* what the call returned to its caller
    ntot, nsuc,        \* the arguments of the running binomialCI call
    fsolves,   \* the bounds of that call that were computed with fsolve, and from where
    exactci, cltci,    \* the two intervals binomialCI builds
    quant, Xsample, extremes,  \* the arguments of the running quantileCI call
    Xorder,    \* the array of n+2 entries quantileCI builds
    lopos, uppos,      \* the positions of the lower and the upper bound (floats)
    idx,       \* the two integer indices the array is read at
    quantci,   \* the interval quantileCI builds
    nTrials, nVotes, CDF,      \* the arguments of the running TwoBestWin call
    Yes,       \* one entry per trial: did the two preferred candidates win
    vote,      \* the votes per candidate, in the trial counted last
    votes,     \* the candidate each vote of that trial went to
    ii,        \* the number of trials done
    memo       \* history: one earlier call, its arguments, draws and outcome

meanVars == <<absTol, relTol, calls, YY, sigma, hum, nmu, Y2, mu, nSample>>
binomVars == <<ntot, nsuc, fsolves, exactci, cltci>>
quantVars == <<quant, Xsample, extremes, Xorder, lopos, uppos, idx, quantci>>
electVars == <<nTrials, nVotes, CDF, Yes, vote, votes, ii>>
vars == <<fn, pc, alpha, ret, meanVars, binomVars, quantVars, memo, electVars>>

\* stats.norm.ppf(1-alpha/2)*sigmaUpBound/max(absTol,relTol), a float.
SizeRatio(sg, aT, rT, al) ==
    FDiv(FMul(NormPpf(200 - al), FMul(sg, inflate)), Rat(Max(aT, rT), 1000))

\* (mutant) the ceiling taken of the squared ratio: ceil(ratio^2).
SizeFloatCeilOfSquare(sg, aT, rT, al) ==
    LET x == SizeRatio(sg, aT, rT, al)
    IN  IF x.k = "nan" THEN NaN
        ELSE IF x.k = "inf" THEN Inf(1)
        ELSE IntF(CeilDiv(x.n, x.d))

\* np.power(np.ceil(ratio), 2), still a float.
SizeFloat(sg, aT, rT, al) == FPow2(FCeil(SizeRatio(sg, aT, rT, al)))

\* (mutant) the converted size used as it is, without max(1, .).
NmuOutcomesNoMax(sg, aT, rT, al) == AsTypeInt(SizeFloat(sg, aT, rT, al))

\* The values nmu can take: max(1, <the float converted to int64>).
NmuOutcomes(sg, aT, rT, al) ==
    {Max(1, i) : i \in AsTypeInt(SizeFloat(sg, aT, rT, al))}

\* (mutant) the pilot observations pooled into the estimate.
MuOfPooled(yy, y2) == Frac(Sum1(yy) + Sum1(y2), Count(yy) + Count(y2))

\* mu = np.mean(inputRandomFuc(nmu)); yy, the pilot sample, is not read.
MuOf(yy, y2) == NpMean(y2)

\* (mutant) the pilot sample left out of the reported cost.
NSampleOfSecondOnly(nm) == nm

\* nSample = nsig + nmu
NSampleOf(nm) == nsig + nm

\* One invocation of inputRandomFuc: the count asked for and whether it returned.
Invocation(n, ok) == [n |-> n, ok |-> ok]

Init ==
    /\ fn = "none" /\ pc = "idle"
    /\ absTol = None /\ relTol = None /\ alpha = None
    /\ calls = <<>>
    /\ YY = None /\ sigma = None /\ hum = None /\ nmu = None
    /\ Y2 = None /\ mu = None /\ nSample = None /\ ret = None
    /\ ntot = None /\ nsuc = None /\ fsolves = {}
    /\ exactci = None /\ cltci = None
    /\ quant = None /\ Xsample = None /\ extremes = None /\ Xorder = None
    /\ lopos = None /\ uppos = None /\ idx = None /\ quantci = None
    /\ nTrials = None /\ nVotes = None /\ CDF = None
    /\ Yes = None /\ vote = None /\ votes = None /\ ii = None
    /\ memo = None

\* meanMC_CLT(inputRandomFuc, absTol, relTol, alpha) is entered: nothing is
\* validated, the first statement that can fail is the pilot draw.
MeanMC_Call ==
    /\ pc = "idle"
    /\ \E aT \in AbsTols, rT \in RelTols, al \in Alphas :
          /\ absTol' = aT /\ relTol' = rT /\ alpha' = al
    /\ fn' = "meanMC_CLT" /\ pc' = "pilot"
    /\ UNCHANGED <<calls, YY, sigma, hum, nmu, Y2, mu, nSample, ret, binomVars, quantVars, memo, electVars>>

\* (mutant) a pilot draw that raised is tried again.
MeanMC_PilotRetry ==
    /\ pc = "pilot"
    /\ Len(calls) < 2
    /\ \/ /\ calls' = Append(calls, Invocation(nsig, FALSE))
          /\ pc' = "pilot"
          /\ UNCHANGED <<YY, sigma, hum, nmu>>
       \/ \E y \in SampleVectors(nsig) :
             /\ CanReturn(nsig)
             /\ calls' = Append(calls, Invocation(nsig, TRUE))
             /\ YY' = y
             /\ sigma' = NpStd(y)
             /\ hum' = NpMean(y)
             /\ nmu' \in NmuOutcomes(NpStd(y), absTol, relTol, alpha)
             /\ pc' = "second"
    /\ UNCHANGED <<fn, absTol, relTol, alpha, Y2, mu, nSample, ret, binomVars, quantVars, memo, electVars>>

\* YY = inputRandomFuc(nsig) and the lines up to nmu = ...
MeanMC_Pilot ==
    /\ pc = "pilot"
    /\ \/ \E y \in SampleVectors(nsig) :
             /\ CanReturn(nsig)
             /\ calls' = Append(calls, Invocation(nsig, TRUE))
             /\ YY' = y
             /\ sigma' = NpStd(y)
             /\ hum' = NpMean(y)
             /\ nmu' \in NmuOutcomes(NpStd(y), absTol, relTol, alpha)
             /\ pc' = "second"
       \/ /\ calls' = Append(calls, Invocation(nsig, FALSE))
          /\ pc' = "raised"
          /\ UNCHANGED <<YY, sigma, hum, nmu>>
    /\ UNCHANGED <<fn, absTol, relTol, alpha, Y2, mu, nSample, ret, binomVars, quantVars, memo, electVars>>

\* (mutant) the pilot sample reused when it is already large enough: no
\* second draw for nmu <= nsig.
MeanMC_SecondReusingPilot ==
    /\ pc = "second"
    /\ \/ /\ nmu > nsig
          /\ calls' = Append(calls, Invocation(nmu, FALSE))
          /\ pc' = "raised"
          /\ UNCHANGED <<Y2, mu, nSample, ret>>
       \/ /\ nmu <= nsig
          /\ calls' = calls
          /\ Y2' = YY
          /\ mu' = hum
          /\ nSample' = NSampleOf(nmu)
          /\ ret' = <<hum, NSampleOf(nmu)>>
          /\ pc' = "returned"
       \/ \E y \in SampleVectors(nmu) :
             /\ nmu > nsig
             /\ CanReturn(nmu)
             /\ calls' = Append(calls, Invocation(nmu, TRUE))
             /\ Y2' = y
             /\ mu' = MuOf(YY, y)
             /\ nSample' = NSampleOf(nmu)
             /\ ret' = <<MuOf(YY, y), NSampleOf(nmu)>>
             /\ pc' = "returned"
    /\ UNCHANGED <<fn, absTol, relTol, alpha, YY, sigma, hum, nmu, binomVars, quantVars, memo, electVars>>

\* mu = np.mean(inputRandomFuc(nmu)); nSample = nsig + nmu; return mu, nSample
MeanMC_Second ==
    /\ pc = "second"
    /\ \/ /\ calls' = Append(calls, Invocation(nmu, FALSE))
          /\ pc' = "raised"
          /\ UNCHANGED <<Y2, mu, nSample, ret>>
       \/ \E y \in SampleVectors(nmu) :
             /\ CanReturn(nmu)
             /\ calls' = Append(calls, Invocation(nmu, TRUE))
             /\ Y2' = y
             /\ mu' = MuOf(YY, y)
             /\ nSample' = NSampleOf(nmu)
             /\ ret' = <<MuOf(YY, y), NSampleOf(nmu)>>
             /\ pc' = "returned"
    /\ UNCHANGED <<fn, absTol, relTol, alpha, YY, sigma, hum, nmu, binomVars, quantVars, memo, electVars>>

\* ------------------------------------------------------ binomialCI
\* The largest number of trials tried.
MaxN == 4
NTots == 0..MaxN
NSucs(nt) == (-1)..(nt + 1)
\* alpha in hundredths; alpha/2 is then alpha 200ths.
BinomAlphas == {1, 5, 10, 150}

\* The rational p/q (q > 0), reduced.
RatV(p, q) == LET g == Gcd(Abs(p), q) IN [k |-> "rat", n |-> p \div g, d |-> q \div g]

\* nsuc/ntot for a numpy count nsuc: a division by zero gives NaN or inf and a
\* RuntimeWarning.  (For two Python ints it raises ZeroDivisionError.)
TrueDiv(ns, nt) ==
    IF nt = 0 THEN (IF ns = 0 THEN NaN ELSE Inf(Sign(ns)))
    ELSE RatV(Sign(nt) * ns, Abs(nt))

RECURSIVE Pow(_, _)
Pow(b, e) == IF e = 0 THEN 1 ELSE b * Pow(b, e - 1)

RECURSIVE Choose(_, _)
Choose(n, j) ==
    IF j = 0 \/ j = n THEN 1 ELSE Choose(n - 1, j - 1) + Choose(n - 1, j)

\* stats.binom.cdf(kk, n, p/q) times q^n, for 0 <= p/q <= 1: the sum over
\* j <= kk of C(n,j) p^j (q-p)^(n-j).
RECURSIVE BinomCdfNum(_, _, _, _)
BinomCdfNum(kk, n, p, q) ==
    IF kk < 0 THEN 0
    ELSE IF kk >= n THEN Pow(q, n)
    ELSE Choose(n, kk) * Pow(p, kk) * Pow(q - p, n - kk) + BinomCdfNum(kk - 1, n, p, q)

\* The p in (0,1) with stats.binom.cdf(kk, n, p) = t/200: there is exactly one
\* for 0 <= kk < n and 0 < t < 200, the CDF falling strictly from 1 to 0 in p.
RootV(kk, n, t) == [k |-> "root", kk |-> kk, nn |-> n, t |-> t]

\* scipy.optimize.fsolve(lambda x: stats.binom.cdf(kk, n, x) - t/200, x0)[0].
\* MINPACK's hybrd estimates the derivative from the residual at x0 and at
\* x0 + h, h > 0.  binom.cdf is NaN outside [0,1], so from a start x0 >= 1 (or
\* x0 < 0, NaN, inf) no step is ever accepted: fsolve warns that it makes no
\* progress and returns x0, raising nothing.  From a start in [0,1) it reaches
\* the root.
Fsolve(kk, n, t, x0) ==
    IF /\ x0.k = "rat" /\ 0 <= x0.n /\ x0.n < x0.d
       /\ 0 <= kk /\ kk < n /\ 0 < t /\ t < 200
    THEN [x |-> RootV(kk, n, t), ok |-> TRUE]
    ELSE [x |-> x0, ok |-> FALSE]

\* (mutant) the lower bound always left to the solver.
PloOfNoSpecialCase(nt, ns, al2, obsprob) ==
    [b |-> "plo", solver |-> TRUE, r |-> Fsolve(ns - 1, nt, 200 - al2, obsprob)]

\* (mutant) the two targets swapped: the lower bound solves CDF = alpha/2.
PloOfSwappedTarget(nt, ns, al2, obsprob) ==
    IF ns = 0 THEN [b |-> "plo", solver |-> FALSE, r |-> [x |-> RatV(0, 1), ok |-> TRUE]]
    ELSE [b |-> "plo", solver |-> TRUE, r |-> Fsolve(ns - 1, nt, al2, obsprob)]

\* (mutant) the lower bound set directly at both ends, to nsuc/ntot.
PloOfDirectAtBothEnds(nt, ns, al2, obsprob) ==
    IF ns = 0 \/ ns = nt THEN [b |-> "plo", solver |-> FALSE, r |-> [x |-> obsprob, ok |-> TRUE]]
    ELSE [b |-> "plo", solver |-> TRUE, r |-> Fsolve(ns - 1, nt, 200 - al2, obsprob)]

\* if nsuc==0: plo=0  else: plo=fsolve(lambda x: cdf(nsuc-1,ntot,x)-1+al2, obsprob)[0]
PloOf(nt, ns, al2, obsprob) ==
    IF ns = 0 THEN [b |-> "plo", solver |-> FALSE, r |-> [x |-> RatV(0, 1), ok |-> TRUE]]
    ELSE [b |-> "plo", solver |-> TRUE, r |-> Fsolve(ns - 1, nt, 200 - al2, obsprob)]

\* if nsuc==ntot: pup=1  else: pup=fsolve(lambda x: cdf(nsuc,ntot,x)-al2, obsprob)[0]
PupOf(nt, ns, al2, obsprob) ==
    IF ns = nt THEN [b |-> "pup", solver |-> FALSE, r |-> [x |-> RatV(1, 1), ok |-> TRUE]]
    ELSE [b |-> "pup", solver |-> TRUE, r |-> Fsolve(ns, nt, al2, obsprob)]

FNeg(x) ==
    IF x.k = "nan" THEN NaN
    ELSE IF x.k = "inf" THEN Inf(-x.s)
    ELSE [x EXCEPT !.s = -x.s]

\* (mutant) a sign slip in the variance: np.sqrt(obsprob*(1+obsprob)).
SqrtVarSignSlip(op) ==
    IF op.k # "rat" THEN NaN
    ELSE IF op.n * (op.d + op.n) < 0 THEN NaN
    ELSE Root(1, op.n * (op.d + op.n), op.d * op.d)

\* np.sqrt(obsprob*(1-obsprob)): NaN (and a warning) for a negative product.
SqrtVar(op) ==
    IF op.k # "rat" THEN NaN
    ELSE IF op.n * (op.d - op.n) < 0 THEN NaN
    ELSE Root(1, op.n * (op.d - op.n), op.d * op.d)

\* -stats.norm.ppf(al2)*np.sqrt(obsprob*(1-obsprob))/np.sqrt(ntot)
CltHalf(nt, al2, obsprob) ==
    FDiv(FMul(FNeg(NormPpf(al2)), SqrtVar(obsprob)), Root(1, nt, 1))

\* The number c + h, c rational (or NaN, inf) and h a float.
Offset(c, h) == [c |-> c, h |-> h]

\* Whether c + h, c = n/d a rational and h = s*sqrt(hn/hd), is below 0; above 1.
OffsetBelow0(o) ==
    /\ o.c.k = "rat" /\ o.h.k = "fin"
    /\ IF o.c.n < 0 THEN o.h.s <= 0 \/ o.h.n * o.c.d * o.c.d < o.c.n * o.c.n * o.h.d
       ELSE o.h.s < 0 /\ o.h.n * o.c.d * o.c.d > o.c.n * o.c.n * o.h.d
OffsetAbove1(o) ==
    /\ o.c.k = "rat" /\ o.h.k = "fin"
    /\ LET m == o.c.d - o.c.n
       IN  IF m < 0 THEN o.h.s >= 0 \/ o.h.n * o.c.d * o.c.d < m * m * o.h.d
           ELSE o.h.s > 0 /\ o.h.n * o.c.d * o.c.d > m * m * o.h.d

\* (mutant) the CLT interval clipped to [0,1].
CltCIClipped(nt, al2, obsprob) ==
    LET lo == Offset(obsprob, FNeg(CltHalf(nt, al2, obsprob)))
        up == Offset(obsprob, CltHalf(nt, al2, obsprob))
    IN  <<IF OffsetBelow0(lo) THEN Offset(RatV(0, 1), Root(0, 0, 1)) ELSE lo,
          IF OffsetAbove1(up) THEN Offset(RatV(1, 1), Root(0, 0, 1)) ELSE up>>

\* (mutant) the two signs exchanged: obsprob + np.array([1,-1])*(...).
CltCISwapped(nt, al2, obsprob) ==
    <<Offset(obsprob, CltHalf(nt, al2, obsprob)),
      Offset(obsprob, FNeg(CltHalf(nt, al2, obsprob)))>>

\* cltci = obsprob + np.array([-1,1])*(...)
CltCI(nt, al2, obsprob) ==
    <<Offset(obsprob, FNeg(CltHalf(nt, al2, obsprob))),
      Offset(obsprob, CltHalf(nt, al2, obsprob))>>

\* binomialCI(ntot, nsuc, alpha), the whole function.  npy: nsuc is a numpy
\* scalar, as in the notebooks (np.sum(Yes), sum(Ttotval > lateTime)), and not
\* a Python int.
BinomialCI ==
    /\ pc = "idle"
    /\ \E nt \in NTots, al \in BinomAlphas, npy \in BOOLEAN : \E ns \in NSucs(nt) :
          /\ ntot' = nt /\ nsuc' = ns /\ alpha' = al
          /\ \/ /\ nt = 0 /\ ~npy
                /\ pc' = "raised"
                /\ UNCHANGED <<fsolves, exactci, cltci, ret>>
             \/ /\ nt # 0 \/ npy
                /\ LET obsprob == TrueDiv(ns, nt)
                       al2 == al
                       plo == PloOf(nt, ns, al2, obsprob)
                       pup == PupOf(nt, ns, al2, obsprob)
                   IN  /\ fsolves' = {[b |-> e.b, ok |-> e.r.ok, x0 |-> obsprob] : e \in {f \in {plo, pup} : f.solver}}
                       /\ exactci' = <<plo.r.x, pup.r.x>>
                       /\ cltci' = CltCI(nt, al2, obsprob)
                       /\ ret' = <<<<plo.r.x, pup.r.x>>, CltCI(nt, al2, obsprob)>>
                /\ pc' = "returned"
    /\ fn' = "binomialCI"
    /\ UNCHANGED <<meanVars, quantVars, memo, electVars>>

\* ------------------------------------------------------ quantileCI
\* The longest sample tried.
MaxLen == 3

RECURSIVE SeqsOfLen(_)
SeqsOfLen(n) ==
    IF n = 0 THEN {<<>>} ELSE {Append(s, v) : s \in SeqsOfLen(n - 1), v \in Values}
\* The samples, the extremes (the second pair is the tightest that brackets
\* every sample, the third brackets few), quant in fourths and alpha in
\* hundredths (alpha/2 is then alpha 200ths).
Samples == UNION {SeqsOfLen(n) : n \in 1..MaxLen}
Extremes == {<<-1, MaxVal + 1>>, <<0, MaxVal>>, <<1, 1>>}
Quants == 0..5
QuantAlphas == {0, 1, 5, 10, 60, 120}

\* sorted(Xsample): a new list, ascending.
RECURSIVE InsertSorted(_, _)
InsertSorted(x, s) ==
    IF s = <<>> THEN <<x>>
    ELSE IF x <= Head(s) THEN <<x>> \o s
    ELSE <<Head(s)>> \o InsertSorted(x, Tail(s))
RECURSIVE Sorted(_)
Sorted(s) == IF s = <<>> THEN <<>> ELSE InsertSorted(Head(s), Sorted(Tail(s)))

\* (mutant) the sample sorted in place, Xsample.sort().
CallerSampleSortedInPlace(xs) == Sorted(xs)

\* The caller's list after sorted(Xsample), which copies.
CallerSample(xs) == xs

\* (mutant) the sample copied into the array as it comes.
XorderOfUnsorted(xs, ex) == <<ex[1]>> \o xs \o <<ex[2]>>

\* Xorder = np.zeros(n+2); Xorder[0] = extremes[0];
\* Xorder[1:n+1] = sorted(Xsample); Xorder[n+1] = extremes[1].
\* Python's Xorder[i] is XorderOf(xs, ex)[i + 1].
XorderOf(xs, ex) == <<ex[1]>> \o Sorted(xs) \o <<ex[2]>>

\* The least k in from..n with stats.binom.cdf(k, n, p/4) >= q/200.
RECURSIVE LeastAtLeast(_, _, _, _)
LeastAtLeast(q, n, p, from) ==
    IF from >= n \/ 200 * BinomCdfNum(from, n, p, 4) >= q * Pow(4, n) THEN from
    ELSE LeastAtLeast(q, n, p, from + 1)

\* stats.binom.ppf(q/200, n, p/4): NaN for p outside [0,1] or q outside
\* [0,1]; the support's lower end minus 1 at q = 0 and its upper end at q = 1.
BinomPpf(q, n, p) ==
    IF p < 0 \/ p > 4 \/ q < 0 \/ q > 200 THEN NaN
    ELSE IF q = 0 THEN IntF(-1)
    ELSE IF q = 200 THEN IntF(n)
    ELSE IntF(LeastAtLeast(q, n, p, 0))

\* i + x for an integer i and an integer-valued float x.
PlusInt(i, x) == IF x.k = "fin" THEN IntF(i + x.v) ELSE x

\* (mutant) the upper position one lower, 1 + ppf.
UpPosOfOneLess(al2, n, qt) == PlusInt(1, BinomPpf(200 - al2, n, qt))

\* (mutant) the lower position without its offset, ppf alone.
LoPosOfNoOffset(al2, n, qt) == PlusInt(0, BinomPpf(al2, n, qt))

\* (mutant) the upper position without its offset, ppf alone.
UpPosOfNoOffset(al2, n, qt) == PlusInt(0, BinomPpf(200 - al2, n, qt))

\* lo = 1+stats.binom.ppf(al2,n,quant); up = 2+stats.binom.ppf(1-al2,n,quant)
LoPosOf(al2, n, qt) == PlusInt(1, BinomPpf(al2, n, qt))
UpPosOf(al2, n, qt) == PlusInt(2, BinomPpf(200 - al2, n, qt))

\* Xorder[i] for an integer i: IndexError outside -len..len-1, from the end
\* for a negative i.
IndexOK(len, i) == -len <= i /\ i < len
Item(arr, i) == arr[(IF i < 0 THEN Len(arr) + i ELSE i) + 1]

\* quantileCI(quant, Xsample, extremes, alpha) is entered with the caller's
\* sample and extremes.
QuantileCI_Call ==
    /\ pc = "idle"
    /\ fn' = "quantileCI" /\ pc' = "quantile"
    /\ quant' \in Quants /\ Xsample' \in Samples /\ extremes' \in Extremes
    /\ alpha' \in QuantAlphas
    /\ UNCHANGED <<ret, meanVars, binomVars, Xorder, lopos, uppos, idx, quantci, memo, electVars>>

\* The body of quantileCI: the array, the two positions, the two reads.
QuantileCI_Body ==
    /\ pc = "quantile"
    /\ LET n == Len(Xsample)
           xo == XorderOf(Xsample, extremes)
           lo == LoPosOf(alpha, n, quant)
           up == UpPosOf(alpha, n, quant)
       IN  /\ Xsample' = CallerSample(Xsample)
           /\ Xorder' = xo /\ lopos' = lo /\ uppos' = up
           /\ \E i \in AsTypeInt(lo), j \in AsTypeInt(up) :
                 /\ idx' = <<i, j>>
                 /\ \/ /\ IndexOK(n + 2, i) /\ IndexOK(n + 2, j)
                       /\ quantci' = <<Item(xo, i), Item(xo, j)>>
                       /\ ret' = <<Item(xo, i), Item(xo, j)>>
                       /\ pc' = "returned"
                    \/ /\ ~(IndexOK(n + 2, i) /\ IndexOK(n + 2, j))
                       /\ pc' = "raised"
                       /\ UNCHANGED <<quantci, ret>>
    /\ UNCHANGED <<fn, alpha, quant, extremes, meanVars, binomVars, memo, electVars>>

\* ------------------------------------------------------ TwoBestWin
\* TwoBestWin(nTrials, nVotes, CDF) of the election notebook.  Probabilities
\* and uniform draws are counted in units of 1/Grid: a draw of
\* np.random.rand is one of 0..Grid-1 (it is in [0,1)), a CDF entry one of
\* 0..Grid, Grid standing for 1.  Arrays are sequences: entry i of the code
\* is entry i+1 here.
MaxTrials == 2
MaxVotes == 3
MaxCand == 3
Grid == 4

\* The nondecreasing sequences of n entries from lo..hi.
RECURSIVE Ascending(_, _, _)
Ascending(n, lo, hi) ==
    IF n = 0 THEN {<<>>}
    ELSE {t \in {Append(s, v) : s \in Ascending(n - 1, lo, hi), v \in lo..hi} :
             n = 1 \/ t[n - 1] <= t[n]}

\* The arguments: a negative count among the numbers of trials and of votes;
\* every nondecreasing CDF of up to MaxCand entries that ends at 1, and a few
\* that are no CDF (empty, ending below 1, decreasing, not monotone).
TrialCounts == -1..MaxTrials
VoteCounts == -1..MaxVotes
CDFs ==
    {Append(s, Grid) : s \in UNION {Ascending(n, 0, Grid) : n \in 0..(MaxCand - 1)}}
    \cup {<<>>, <<1, Grid - 1>>, <<Grid, 1>>, <<2, 1, Grid>>}

\* np.random.rand(nVotes,1): nVotes draws from [0,1).  Nothing reads the
\* order of the draws of one trial (they are only counted), so each set of
\* draws is listed once, in ascending order.
Draws(n) == Ascending(n, 0, Grid - 1)

\* np.zeros(n)
Zeros(n) == [i \in 1..n |-> 0]

\* votes = np.sum(np.random.rand(nVotes,1) > CDF, axis = 1): for each draw the
\* number of CDF entries strictly below it.
VotesOf(draws, cdf) ==
    [k \in 1..Len(draws) |-> Cardinality({j \in 1..Len(cdf) : draws[k] > cdf[j]})]

\* (mutant) the counts added to those of the trials before.
VoteOfAccumulated(old, vs) ==
    [i \in 1..Len(old) |-> old[i] + Cardinality({k \in 1..Len(vs) : vs[k] = i - 1})]

\* for i in range(nCandidate): vote[i] = np.sum(votes == i); every entry of
\* the array is assigned, its earlier content is not read.
VoteOf(old, vs) ==
    [i \in 1..Len(old) |-> Cardinality({k \in 1..Len(vs) : vs[k] = i - 1})]

\* (mutant) a tie with a later candidate counted as a win: >= for >.
AllGreaterOrEqual(x, s) == \A j \in 1..Len(s) : x >= s[j]

\* np.all(x > s) for a number x and an array s (true of the empty array).
AllGreater(x, s) == \A j \in 1..Len(s) : x > s[j]

\* (mutant) the entry stored as +1 or -1.
BoolToFloatSigned(b) == IF b THEN 1 ELSE -1

\* A boolean stored into a float array: 1.0 or 0.0.
BoolToFloat(b) == IF b THEN 1 ELSE 0

\* np.all(vote[0] > vote[2:nCandidate]) and np.all(vote[1] > vote[2:nCandidate])
TwoBest(vt) ==
    LET rest == SubSeq(vt, 3, Len(vt))
    IN  AllGreater(vt[1], rest) /\ AllGreater(vt[2], rest)

\* TwoBestWin is entered: Yes and vote are allocated (np.zeros of a negative
\* count raises ValueError), nothing else is validated.
TwoBestWin_Call ==
    /\ fn = "none" /\ pc = "idle"
    /\ \E nT \in TrialCounts, nV \in VoteCounts, cdf \in CDFs :
          /\ fn' = "TwoBestWin"
          /\ nTrials' = nT /\ nVotes' = nV /\ CDF' = cdf
          /\ IF nT < 0
             THEN pc' = "raised" /\ Yes' = None /\ vote' = None /\ ii' = None
             ELSE pc' = "trials" /\ Yes' = Zeros(nT) /\ vote' = Zeros(Len(cdf)) /\ ii' = 0
    /\ votes' = None
    /\ UNCHANGED <<alpha, ret, meanVars, binomVars, quantVars, memo>>

\* One pass of the loop over the trials: the votes are drawn (a negative
\* count raises ValueError), counted per candidate, and Yes[ii] is set;
\* vote[0] or vote[1] of an array of fewer than two entries raises IndexError
\* (with one entry the first np.all is true and the second is evaluated).
TwoBestWin_Trial ==
    /\ fn = "TwoBestWin" /\ pc = "trials" /\ ii < nTrials
    /\ IF nVotes < 0
       THEN pc' = "raised" /\ UNCHANGED <<Yes, vote, votes, ii>>
       ELSE \E draws \in Draws(nVotes) :
               LET vs == VotesOf(draws, CDF)
                   vt == VoteOf(vote, vs)
               IN  /\ votes' = vs
                   /\ vote' = vt
                   /\ IF Len(CDF) < 2
                      THEN pc' = "raised" /\ UNCHANGED <<Yes, ii>>
                      ELSE /\ Yes' = [Yes EXCEPT ![ii + 1] = BoolToFloat(TwoBest(vt))]
                           /\ ii' = ii + 1
                           /\ pc' = "trials"
    /\ UNCHANGED <<fn, alpha, ret, nTrials, nVotes, CDF, meanVars, binomVars, quantVars, memo>>

\* The loop is over: return Yes.
TwoBestWin_Return ==
    /\ fn = "TwoBestWin" /\ pc = "trials" /\ ii = nTrials
    /\ pc' = "returned"
    /\ ret' = Yes
    /\ UNCHANGED <<fn, alpha, meanVars, binomVars, quantVars, memo, electVars>>

\* (mutant) the last result kept in a module-level variable.
FrameGoneKeepingResult ==
    /\ fn' = "none" /\ pc' = "idle"
    /\ absTol' = None /\ relTol' = None /\ alpha' = None
    /\ calls' = <<>>
    /\ YY' = None /\ sigma' = None /\ hum' = None /\ nmu' = None
    /\ Y2' = None /\ mu' = None /\ nSample' = None /\ ret' = ret
    /\ ntot' = None /\ nsuc' = None /\ fsolves' = {}
    /\ exactci' = None /\ cltci' = None
    /\ quant' = None /\ Xsample' = None /\ extremes' = None /\ Xorder' = None
    /\ lopos' = None /\ uppos' = None /\ idx' = None /\ quantci' = None
    /\ nTrials' = None /\ nVotes' = None /\ CDF' = None
    /\ Yes' = None /\ vote' = None /\ votes' = None /\ ii' = None

\* The routines have parameters and locals only, no global and no attribute:
\* when a call is over nothing of it is left.
FrameGone ==
    /\ fn' = "none" /\ pc' = "idle"
    /\ absTol' = None /\ relTol' = None /\ alpha' = None
    /\ calls' = <<>>
    /\ YY' = None /\ sigma' = None /\ hum' = None /\ nmu' = None
    /\ Y2' = None /\ mu' = None /\ nSample' = None /\ ret' = None
    /\ ntot' = None /\ nsuc' = None /\ fsolves' = {}
    /\ exactci' = None /\ cltci' = None
    /\ quant' = None /\ Xsample' = None /\ extremes' = None /\ Xorder' = None
    /\ lopos' = None /\ uppos' = None /\ idx' = None /\ quantci' = None
    /\ nTrials' = None /\ nVotes' = None /\ CDF' = None
    /\ Yes' = None /\ vote' = None /\ votes' = None /\ ii' = None

\* The call is over (it returned or raised).  A call remembered earlier is
\* now one with a call after it.
Finish ==
    /\ pc \in {"returned", "raised"}
    /\ FrameGone
    /\ memo' = IF memo = None THEN None ELSE [memo EXCEPT !.between = TRUE]

\* What a call is given: the routine, its arguments and what the sampling
\* function did in each of its draws.
CurKey == <<fn, alpha, absTol, relTol, calls, YY, Y2, ntot, nsuc, quant, Xsample, extremes>>

\* The calls that are remembered for a later comparison (a few of each routine).
Memorable ==
    \/ /\ fn = "meanMC_CLT" /\ absTol = 10 /\ relTol = 0 /\ alpha = 5
       /\ IF calls[1].ok THEN YY = ConstVec(nsig, 0) ELSE TRUE
       /\ IF pc = "returned" THEN Y2 = ConstVec(1, 1) ELSE TRUE
    \/ fn = "binomialCI" /\ ntot = 2 /\ nsuc \in 1..2 /\ alpha = 5
    \/ /\ fn = "quantileCI" /\ quant = 2 /\ alpha = 60
       /\ extremes = <<0, MaxVal>> /\ Xsample = <<1, 0>>

\* The call is over and is remembered, in place of the one remembered before.
Remember ==
    /\ pc \in {"returned", "raised"}
    /\ Memorable
    /\ FrameGone
    /\ memo' = [key |-> CurKey, out |-> pc, ret |-> ret, between |-> FALSE]

Next ==
    \/ MeanMC_Call \/ MeanMC_Pilot \/ MeanMC_Second
    \/ BinomialCI
    \/ QuantileCI_Call \/ QuantileCI_Body
    \/ Finish

Spec == Init /\ [][Next]_vars

\* The same calls, one earlier call remembered.
NextRuns == Next \/ Remember
SpecRuns == Init /\ [][NextRuns]_vars

\* The election notebook: calls of TwoBestWin, one after another.
NextElection ==
    \/ TwoBestWin_Call \/ TwoBestWin_Trial \/ TwoBestWin_Return
    \/ Finish

SpecElection == Init /\ [][NextElection]_vars

\* ====================================================== the claims
\* The arguments the contract of meanMC_CLT allows: alpha in (0,1) and
\* tol = max(absTol, relTol) > 0.
ValidMeanArgs == fn = "meanMC_CLT" /\ alpha \in 1..99 /\ Max(absTol, relTol) > 0
\* The size ratio of the running call, once the pilot sample is there.
CurRatio == SizeRatio(sigma, absTol, relTol, alpha)
\* The least k >= 0 with k*k >= m.
LeastRootAtLeast(m) == CHOOSE k \in 0..4096 : k * k >= m /\ (k = 0 \/ (k - 1) * (k - 1) < m)
\* For a ratio x >= 0 with x^2 = n/d: ceil(x)^2 and ceil(x^2).
SquareOfCeil(x) == LET k == LeastRootAtLeast(CeilDiv(x.n, x.d)) IN k * k
CeilOfSquare(x) == CeilDiv(x.n, x.d)

\* The states in which the pilot sample is drawn and nmu computed.
Sized == YY # None
InMean == fn = "meanMC_CLT"
InBinom == fn = "binomialCI"

\* C1 as the claim states it: for valid arguments the second sample has
\* max(1, ceil((z*sigmaUpBound/tol)^2)) observations, the ceiling taken of the
\* squared ratio.
C1_CeilOfSquare ==
    (pc = "second" /\ ValidMeanArgs) => nmu = Max(1, CeilOfSquare(CurRatio))

\* C1 (amended): for valid arguments the second sample has
\* max(1, ceil(z*sigmaUpBound/tol)^2) observations, the ceiling taken of the
\* ratio and then squared, whenever that square fits the 64-bit integer.
C1_SquareOfCeil ==
    (pc = "second" /\ ValidMeanArgs /\ SquareOfCeil(CurRatio) <= Int64Max)
        => nmu = Max(1, SquareOfCeil(CurRatio))

\* C1's case: valid arguments, a ratio that is no integer, and a size
\* strictly above ceil(ratio^2).
C1_Witness ==
    /\ pc = "second" /\ ValidMeanArgs
    /\ SquareOfCeil(CurRatio) <= Int64Max
    /\ nmu > CeilOfSquare(CurRatio)
    /\ CeilOfSquare(CurRatio) > 1

\* C2 as the claim states it: a call with absTol = 0 and relTol = 0 never
\* returns an estimate.
C2_ZeroTolNeverReturns ==
    ~(InMean /\ pc = "returned" /\ absTol = 0 /\ relTol = 0)

\* C3: every count passed to the sampling function is an integer >= 1, the
\* first is 1000, and a pilot sample of standard deviation 0 gives nmu = 1 and
\* a reported total of 1001.
C3_CountsAtLeastOne ==
    /\ \A i \in DOMAIN calls : calls[i].n \in Int /\ calls[i].n >= 1
    /\ calls # <<>> => calls[1].n = 1000
    /\ Sized => (nmu \in Int /\ nmu >= 1)
    /\ (Sized /\ sigma.k = "fin" /\ sigma.s = 0) => nmu = 1
    /\ (InMean /\ pc = "returned" /\ sigma.k = "fin" /\ sigma.s = 0) => ret[2] = 1001

\* C3's case: a call whose pilot sample had standard deviation 0 returned,
\* after a second draw of one observation.
C3_Witness ==
    /\ InMean /\ pc = "returned" /\ sigma.k = "fin" /\ sigma.s = 0
    /\ Len(calls) = 2 /\ calls[2].n = 1 /\ ret[2] = 1001

RECURSIVE SumCounts(_)
SumCounts(c) == IF c = <<>> THEN 0 ELSE Head(c).n + SumCounts(Tail(c))

\* C4: the count a call returns is 1000 + nmu, the sum of the counts it asked
\* the sampling function for.
C4_TotalIsSumOfCounts ==
    (InMean /\ pc = "returned") => (ret[2] = 1000 + nmu /\ ret[2] = SumCounts(calls))

\* C4's case: a call returned after a second draw of more than one observation.
C4_Witness == InMean /\ pc = "returned" /\ nmu > 1 /\ ret[2] = 1000 + nmu

\* Whether the reduced fraction f is the arithmetic mean of the vector h.
IsMeanOf(f, h) ==
    /\ Count(h) % f.d = 0
    /\ LET g == Count(h) \div f.d IN f.n * g = Sum1(h)

\* C5: the estimate returned is the arithmetic mean of the second sample of
\* nmu observations, whatever the pilot observations were.
C5_MeanOfSecondSampleOnly ==
    (InMean /\ pc = "returned") =>
        (Count(Y2) = nmu /\ IsMeanOf(ret[1], Y2) /\ ret[1] = mu)

\* C5's case: a call returned an estimate that differs from the pilot mean.
C5_Witness ==
    /\ InMean /\ pc = "returned"
    /\ IsMeanOf(ret[1], Y2) /\ ~IsMeanOf(ret[1], YY) /\ hum # mu

\* C6: a call invokes the sampling function first with 1000, whatever its
\* arguments, then with the nmu computed from the pilot sample, computes the
\* mean only after the second draw, and returns after exactly these two draws.
C6_PilotThenSizingThenMean ==
    /\ Len(calls) <= 2
    /\ pc = "pilot" => (calls = <<>> /\ YY = None /\ ~Sized)
    /\ Sized =>
          /\ calls[1] = Invocation(1000, TRUE)
          /\ nmu \in NmuOutcomes(NpStd(YY), absTol, relTol, alpha)
    /\ pc = "second" => (Len(calls) = 1 /\ Y2 = None /\ mu = None)
    /\ mu # None => (Len(calls) = 2 /\ Y2 # None /\ calls[2] = Invocation(nmu, TRUE))
    /\ (InMean /\ pc = "returned") =>
          (calls = <<Invocation(1000, TRUE), Invocation(nmu, TRUE)>> /\ mu # None)

\* C6's case: a call returned after its two draws, the second of them of a
\* size other than the pilot's.
C6_Witness ==
    InMean /\ pc = "returned" /\ Len(calls) = 2 /\ calls[2].n # 1000 /\ alpha # 1

\* C8: a draw that raised is the last one of its call, the call ends raised and
\* returns no (mean, count) pair; after a failed pilot draw there is no second.
C8_SamplerErrorPropagates ==
    /\ \A i \in DOMAIN calls : ~calls[i].ok =>
          /\ i = Len(calls)
          /\ pc = "raised"
          /\ ret = None /\ mu = None /\ nSample = None
          /\ ~ENABLED MeanMC_Pilot /\ ~ENABLED MeanMC_Second
    /\ (InMean /\ pc = "raised") => (calls # <<>> /\ ~calls[Len(calls)].ok)
    /\ (InMean /\ pc = "raised" /\ YY = None) => Len(calls) = 1

\* C8's case: the pilot draw returned and the second draw raised.
C8_Witness ==
    /\ InMean /\ pc = "raised"
    /\ Len(calls) = 2 /\ calls[1].ok /\ ~calls[2].ok /\ nmu > 1

\* The arguments the contract of binomialCI allows.
ValidBinomArgs == InBinom /\ ntot >= 1 /\ nsuc \in 0..ntot /\ alpha \in 1..99

\* C7 as the claim states it: a call with an invalid configuration never
\* returns a result (meanMC_CLT: alpha outside (0,1) or a negative tolerance;
\* binomialCI: ntot <= 0, nsuc outside [0, ntot] or alpha outside (0,1);
\* quantileCI: quant or alpha outside (0,1)).
C7_InvalidConfigurationRejected ==
    /\ (InMean /\ (alpha \notin 1..99 \/ absTol < 0 \/ relTol < 0)) => pc # "returned"
    /\ (InBinom /\ ~ValidBinomArgs) => pc # "returned"
    /\ (fn = "quantileCI" /\ (quant \notin 1..3 \/ alpha \notin 1..99)) => pc # "returned"

\* C9: when nsuc = 0 the exact lower bound is 0, when nsuc = ntot the exact
\* upper bound is 1, and fsolve is not used for that bound.
C9_ExtremeCountsSetDirectly ==
    (InBinom /\ pc = "returned") =>
        /\ nsuc = 0 => (exactci[1] = RatV(0, 1) /\ \A f \in fsolves : f.b # "plo")
        /\ nsuc = ntot => (exactci[2] = RatV(1, 1) /\ \A f \in fsolves : f.b # "pup")

\* C9's case: no success in at least one trial; the upper bound is the
\* solver's, the lower bound is not.
C9_Witness ==
    /\ ValidBinomArgs /\ pc = "returned" /\ nsuc = 0
    /\ exactci[1] = RatV(0, 1)
    /\ fsolves = {[b |-> "pup", ok |-> TRUE, x0 |-> RatV(0, 1)]}

\* v <= p/q, v >= p/q and v = p/q for a bound v and 0 <= p/q <= 1.  The root r
\* of a strictly falling F, F(r) = t, is <= x exactly when F(x) <= t.  NaN
\* compares false.
VLeq(v, p, q) ==
    CASE v.k = "rat" -> v.n * q <= p * v.d
      [] v.k = "root" -> 200 * BinomCdfNum(v.kk, v.nn, p, q) <= v.t * Pow(q, v.nn)
      [] OTHER -> FALSE
VGeq(v, p, q) ==
    CASE v.k = "rat" -> v.n * q >= p * v.d
      [] v.k = "root" -> 200 * BinomCdfNum(v.kk, v.nn, p, q) >= v.t * Pow(q, v.nn)
      [] OTHER -> FALSE
VEq(v, p, q) == VLeq(v, p, q) /\ VGeq(v, p, q)

\* C10: for valid arguments the exact interval [lo, hi] has
\* 0 <= lo <= nsuc/ntot <= hi <= 1, lo = 0 exactly when nsuc = 0 and hi = 1
\* exactly when nsuc = ntot.
C10_ExactIntervalBrackets ==
    (ValidBinomArgs /\ pc = "returned") =>
        LET lo == exactci[1]
            hi == exactci[2]
        IN  /\ VGeq(lo, 0, 1) /\ VLeq(lo, nsuc, ntot)
            /\ VGeq(hi, nsuc, ntot) /\ VLeq(hi, 1, 1)
            /\ VEq(lo, 0, 1) <=> nsuc = 0
            /\ VEq(hi, 1, 1) <=> nsuc = ntot

\* C10's case: successes and failures both seen, both bounds roots, the
\* observed proportion strictly between them.
C10_Witness ==
    /\ ValidBinomArgs /\ pc = "returned" /\ 0 < nsuc /\ nsuc < ntot
    /\ exactci[1].k = "root" /\ exactci[2].k = "root"
    /\ ~VGeq(exactci[1], nsuc, ntot) /\ ~VLeq(exactci[2], nsuc, ntot)
    /\ ~VLeq(exactci[1], 0, 1) /\ ~VGeq(exactci[2], 1, 1)

\* C11 as the claim states it: for valid arguments, the exact lower bound for
\* 0 < nsuc is the root p of BinomCDF(nsuc - 1; ntot, p) = 1 - alpha/2 and the
\* exact upper bound for nsuc < ntot is the root p of
\* BinomCDF(nsuc; ntot, p) = alpha/2.
C11_BoundsAreRoots ==
    (ValidBinomArgs /\ pc = "returned") =>
        /\ 0 < nsuc => exactci[1] = RootV(nsuc - 1, ntot, 200 - alpha)
        /\ nsuc < ntot => exactci[2] = RootV(nsuc, ntot, alpha)

\* C12 as the claim states it, for valid arguments already: a call in which a
\* solver run did not converge does not return an interval.
C12_NonConvergenceIsError ==
    (ValidBinomArgs /\ \E f \in fsolves : ~f.ok) => pc # "returned"

\* z * sqrt(p*(1-p)/nt) for p = ns/nt, nt >= 1: NaN for a negative p*(1-p).
WaldHalf(z, ns, nt) ==
    IF ns * (nt - ns) < 0 THEN NaN
    ELSE FMul(z, Root(1, ns * (nt - ns), nt * nt * nt))

\* C13: the CLT interval returned is [obsProb - h, obsProb + h] with
\* obsProb = nsuc/ntot, h = z * sqrt(obsProb*(1 - obsProb)/ntot) and z the
\* normal quantile at 1 - alpha/2; the endpoints are not clipped to [0,1].
C13_CltIntervalUnclipped ==
    (InBinom /\ pc = "returned" /\ ntot >= 1) =>
        LET h == WaldHalf(NormPpf(200 - alpha), nsuc, ntot)
        IN  /\ cltci = <<Offset(TrueDiv(nsuc, ntot), FNeg(h)), Offset(TrueDiv(nsuc, ntot), h)>>
            /\ ret[2] = cltci

\* C13's case: valid arguments and a CLT interval whose upper endpoint is
\* above 1, returned as computed.
C13_Witness ==
    /\ ValidBinomArgs /\ pc = "returned" /\ 0 < nsuc /\ nsuc < ntot
    /\ OffsetAbove1(cltci[2]) /\ ~OffsetBelow0(cltci[1])
    /\ ret[2][2] = Offset(RatV(nsuc, ntot), WaldHalf(NormPpf(200 - alpha), nsuc, ntot))

\* x <= y for two finite floats s*sqrt(n/d).
FLeq(x, y) ==
    /\ x.k = "fin" /\ y.k = "fin"
    /\ IF x.s # y.s THEN x.s < y.s
       ELSE IF x.n = y.n /\ x.d = y.d THEN TRUE
       ELSE IF x.s > 0 THEN x.n * y.d <= y.n * x.d
       ELSE x.n * y.d >= y.n * x.d

\* lo <= hi for two exact bounds, shown by a point i/ntot between them.
ExactOrdered(lo, hi) == \E i \in 0..ntot : VLeq(lo, i, ntot) /\ VGeq(hi, i, ntot)
\* lo <= hi for the two endpoints c + h of the CLT interval.
CltOrdered(lo, hi) == lo.c = hi.c /\ lo.c.k = "rat" /\ FLeq(lo.h, hi.h)

\* C14 (amended): for valid arguments both returned intervals have
\* lower <= upper and both bounds of the exact interval lie in [0,1]; the CLT
\* interval is centred at nsuc/ntot, which lies in [0,1].
C14_OrderedAndExactInUnit ==
    (ValidBinomArgs /\ pc = "returned") =>
        /\ ExactOrdered(exactci[1], exactci[2])
        /\ VGeq(exactci[1], 0, 1) /\ VLeq(exactci[1], 1, 1)
        /\ VGeq(exactci[2], 0, 1) /\ VLeq(exactci[2], 1, 1)
        /\ CltOrdered(cltci[1], cltci[2])
        /\ cltci[1].c = RatV(nsuc, ntot) /\ 0 <= nsuc /\ nsuc <= ntot

\* C14 as the claim states it: in addition, both endpoints of the CLT
\* interval lie in [0,1].
C14_AllBoundsInUnit ==
    /\ C14_OrderedAndExactInUnit
    /\ (ValidBinomArgs /\ pc = "returned") =>
          /\ ~OffsetBelow0(cltci[1]) /\ ~OffsetAbove1(cltci[1])
          /\ ~OffsetBelow0(cltci[2]) /\ ~OffsetAbove1(cltci[2])

\* C14's case: valid arguments, an exact interval with lo < hi inside [0,1]
\* and a CLT interval that reaches below 0.
C14_Witness ==
    /\ ValidBinomArgs /\ pc = "returned" /\ 0 < nsuc /\ nsuc < ntot
    /\ ExactOrdered(exactci[1], exactci[2]) /\ exactci[1] # exactci[2]
    /\ CltOrdered(cltci[1], cltci[2]) /\ cltci[1].h.s < 0
    /\ OffsetBelow0(cltci[1])

InQuant == fn = "quantileCI"
\* The arguments the contract of quantileCI allows: quant and alpha in (0,1),
\* at least one observation.
ValidQuantArgs ==
    InQuant /\ quant \in 1..3 /\ alpha \in 1..99 /\ Len(Xsample) >= 1
\* The body of the running quantileCI call is over.
QuantDone == InQuant /\ pc \in {"returned", "raised"}

\* BinomQuantile(q/200; n, p/4): the smallest k with BinomCDF(k; n, p/4) >= q/200.
BinomQuantile(q, n, p) ==
    CHOOSE k \in 0..n :
        /\ 200 * BinomCdfNum(k, n, p, 4) >= q * Pow(4, n)
        /\ \A j \in 0..(k - 1) : 200 * BinomCdfNum(j, n, p, 4) < q * Pow(4, n)

\* How often v occurs in the sequence s from position a to position b.
Occurrences(s, a, b, v) == Cardinality({i \in a..b : s[i] = v})

\* C15: the array has n+2 entries, extremes[0] first, then the sample in
\* ascending order, then extremes[1]; the two reads are at index
\* 1 + BinomQuantile(alpha/2; n, quant) and 2 + BinomQuantile(1 - alpha/2; n, quant),
\* and a call that returns, returns the two entries there.
C15_OrderStatisticsAtBinomQuantiles ==
    (ValidQuantArgs /\ QuantDone) =>
        LET n == Len(Xsample)
            i == 1 + BinomQuantile(alpha, n, quant)
            j == 2 + BinomQuantile(200 - alpha, n, quant)
        IN  /\ Len(Xorder) = n + 2
            /\ Xorder[1] = extremes[1] /\ Xorder[n + 2] = extremes[2]
            /\ \A a \in 2..n : Xorder[a] <= Xorder[a + 1]
            /\ \A v \in Values : Occurrences(Xorder, 2, n + 1, v) = Occurrences(Xsample, 1, n, v)
            /\ idx = <<i, j>>
            /\ pc = "returned" => ret = <<Xorder[i + 1], Xorder[j + 1]>>

\* C15's case: a sample that is not in order, a lower read above the smallest
\* observation, and the two entries returned.
C15_Witness ==
    /\ ValidQuantArgs /\ pc = "returned"
    /\ Xsample # Sorted(Xsample)
    /\ idx[1] >= 2 /\ idx[2] > idx[1]
    /\ ret = <<Xorder[idx[1] + 1], Xorder[idx[2] + 1]>> /\ ret[1] # ret[2]

\* C16 as the claim states it: for valid arguments both indices the array is
\* read at lie in 0..n+1 and the call returns an interval.
C16_IndicesInRange ==
    (ValidQuantArgs /\ QuantDone) =>
        /\ idx[1] \in 0..(Len(Xsample) + 1)
        /\ idx[2] \in 0..(Len(Xsample) + 1)
        /\ pc = "returned"

\* Every observation lies between the two extremes.
Bracketed == \A a \in DOMAIN Xsample : extremes[1] <= Xsample[a] /\ Xsample[a] <= extremes[2]

\* C17: for valid arguments and extremes that bracket the sample, a returned
\* interval [lo, hi] has extremes[0] <= lo <= hi <= extremes[1].
C17_IntervalWithinExtremes ==
    (ValidQuantArgs /\ Bracketed /\ pc = "returned") =>
        /\ extremes[1] <= ret[1] /\ ret[1] <= ret[2] /\ ret[2] <= extremes[2]
        /\ ret = quantci

\* C17's case: an unordered sample strictly inside the extremes and a returned
\* interval of two different observations.
C17_Witness ==
    /\ ValidQuantArgs /\ Bracketed /\ pc = "returned"
    /\ Xsample # Sorted(Xsample)
    /\ extremes[1] < ret[1] /\ ret[1] < ret[2] /\ ret[2] < extremes[2]

\* C18: the body of quantileCI leaves the caller's sample, in its order, and
\* the caller's extremes as they were; the sorted values are in Xorder only.
C18_SampleUnchanged ==
    [][QuantileCI_Body => (Xsample' = Xsample /\ extremes' = extremes)]_vars

\* C18's case: a call returned for a sample that was not in order; the array
\* holds it sorted, the caller's list is still not in order.
C18_Witness ==
    /\ ValidQuantArgs /\ pc = "returned" /\ Len(Xsample) >= 2
    /\ Xsample # Sorted(Xsample)
    /\ SubSeq(Xorder, 2, Len(Xsample) + 1) = Sorted(Xsample)

\* The running call has arguments its routine's contract allows.
ValidArgs == ValidMeanArgs \/ ValidBinomArgs \/ ValidQuantArgs
\* The running call is over and was given what the remembered call was given.
SameAsRemembered ==
    /\ memo # None /\ pc \in {"returned", "raised"}
    /\ memo.key[1] = fn /\ memo.key = CurKey

C22_AtLeastCltRequirement ==
    (pc = "second" /\ CurRatio.k = "fin" /\ CurRatio.s >= 0
        /\ LeastRootAtLeast(CeilOfSquare(CurRatio)) <= Int64Max)
        => nmu >= CeilOfSquare(CurRatio)

\* C23 as the claim states it: with the pilot standard deviation and alpha
\* of the running call, no tolerance looser than the call's gives a larger
\* second sample than the call's, the squared ratio in the integer range or not.
C23_MonotoneInTolerance ==
    (pc = "second" /\ ValidMeanArgs) =>
        \A tol2 \in {t \in AbsTols : t >= Max(absTol, relTol)} :
            \A m \in NmuOutcomes(sigma, tol2, tol2, alpha) : nmu >= m

\* C24: for valid arguments the lower position is at least 1 and neither read
\* is at position 0, where extremes[0] is.
C24_LowerIndexAtLeastOne ==
    (ValidQuantArgs /\ QuantDone) =>
        /\ lopos.k = "fin" /\ lopos.v >= 1
        /\ idx[1] >= 1 /\ idx[2] >= 1

\* C24's case: the lower read at position 1, the smallest observation, which
\* is above extremes[0].
C24_Witness ==
    /\ ValidQuantArgs /\ pc = "returned"
    /\ idx[1] = 1 /\ ret[1] = Xorder[2] /\ Xorder[1] < ret[1]

\* C25: for valid arguments the lower index is strictly smaller than the
\* upper index.
C25_LowerIndexBelowUpper ==
    (ValidQuantArgs /\ QuantDone) =>
        /\ lopos.k = "fin" /\ uppos.k = "fin" /\ lopos.v < uppos.v
        /\ idx[1] < idx[2]

\* C25's case: the two reads at neighbouring positions, both quantiles of the
\* binomial distribution being the same.
C25_Witness ==
    /\ ValidQuantArgs /\ pc = "returned"
    /\ idx[2] = idx[1] + 1
    /\ BinomQuantile(alpha, Len(Xsample), quant) = BinomQuantile(200 - alpha, Len(Xsample), quant)

\* A float that is zero.
IsZero(x) == x.k = "fin" /\ x.s = 0

\* C26: when nsuc = 0 or nsuc = ntot (ntot >= 1) the CLT interval has zero
\* width, both endpoints being the observed proportion, 0 or 1, whatever
\* alpha and ntot are.
C26_CltZeroWidthAtExtremes ==
    (InBinom /\ pc = "returned" /\ ntot >= 1 /\ nsuc \in {0, ntot}) =>
        /\ cltci[1].c = RatV(nsuc \div ntot, 1) /\ IsZero(cltci[1].h)
        /\ cltci[2].c = RatV(nsuc \div ntot, 1) /\ IsZero(cltci[2].h)
        /\ ret[2] = cltci

\* C26's case: every trial a success, more than one trial, and the CLT
\* interval of the returned pair is the point 1.
C26_Witness ==
    /\ ValidBinomArgs /\ pc = "returned" /\ nsuc = ntot /\ ntot >= 2
    /\ ret[2][1] = Offset(RatV(1, 1), Root(0, 0, 1))
    /\ ret[2][2] = Offset(RatV(1, 1), Root(0, 0, 1))

\* C27: for valid arguments, when nsuc = 0 only the lower bound is set
\* directly and the upper bound is the solver's, started at 0; when
\* nsuc = ntot only the upper bound is set directly and the lower bound is the
\* solver's, started at 1.
C27_BoundsIndependent ==
    (ValidBinomArgs /\ pc = "returned") =>
        /\ nsuc = 0 =>
              /\ {f.b : f \in fsolves} = {"pup"}
              /\ \A f \in fsolves : f.x0 = RatV(0, 1)
              /\ exactci[2] = RootV(0, ntot, alpha)
        /\ nsuc = ntot =>
              /\ {f.b : f \in fsolves} = {"plo"}
              /\ \A f \in fsolves : f.x0 = RatV(1, 1)
              /\ exactci[2] = RatV(1, 1)
        /\ (0 < nsuc /\ nsuc < ntot) => {f.b : f \in fsolves} = {"plo", "pup"}

\* C27's case: every trial a success; the solver ran once, for the lower
\* bound, from 1.
C27_Witness ==
    /\ ValidBinomArgs /\ pc = "returned" /\ nsuc = ntot
    /\ Cardinality(fsolves) = 1
    /\ \E f \in fsolves : f.b = "plo" /\ f.x0 = RatV(1, 1)


InElection == fn = "TwoBestWin"
\* At least one trial of the running call is done: vote and votes are those of
\* trial ii (entry ii of Yes, counted from 1).
TrialDone == InElection /\ pc \in {"trials", "returned"} /\ ii >= 1

\* C21: the entry of Yes for a trial is 1 exactly when candidate 0 and
\* candidate 1 each have strictly more votes than every candidate
\* 2..nCandidate-1, whichever of the two has more; a tie of either with a
\* later candidate gives 0.
C21_YesIffTwoBestAhead ==
    TrialDone =>
        LET later == 3..Len(CDF)
        IN  /\ Yes[ii] = 1 <=> \A j \in later : vote[1] > vote[j] /\ vote[2] > vote[j]
            /\ Yes[ii] = 0 <=> \E j \in later : vote[1] <= vote[j] \/ vote[2] <= vote[j]
            /\ (\E j \in later : vote[1] = vote[j] \/ vote[2] = vote[j]) => Yes[ii] = 0

\* C21's case: three candidates, the second ahead of the first and both ahead
\* of the third.
C21_Witness ==
    /\ TrialDone /\ Len(CDF) = 3 /\ Yes[ii] = 1
    /\ vote[2] > vote[1] /\ vote[1] > vote[3]

\* The arguments the contract of TwoBestWin allows: a nondecreasing CDF whose
\* last entry is 1.
ValidCDF(c) ==
    /\ Len(c) >= 1 /\ c[Len(c)] = Grid
    /\ \A j \in 1..(Len(c) - 1) : c[j] <= c[j + 1]

RECURSIVE SumSeq(_)
SumSeq(s) == IF s = <<>> THEN 0 ELSE Head(s) + SumSeq(Tail(s))

\* C28: with a nondecreasing CDF ending at 1 every vote of a trial goes to
\* exactly one of the candidates 0..nCandidate-1 and the counts of the trial
\* add up to nVotes: the array holds the counts of this trial alone.
C28_EveryVoteCountedOnce ==
    (TrialDone /\ ValidCDF(CDF)) =>
        /\ Len(votes) = nVotes
        /\ \A k \in 1..Len(votes) : votes[k] \in 0..(Len(CDF) - 1)
        /\ \A i \in 1..Len(CDF) : vote[i] = Occurrences(votes, 1, Len(votes), i - 1)
        /\ SumSeq(vote) = nVotes

\* C28's case: a second trial counted, after a first one that ended otherwise.
C28_Witness ==
    /\ TrialDone /\ ValidCDF(CDF) /\ ii = 2 /\ nVotes >= 2
    /\ Yes = <<1, 0>> /\ SumSeq(vote) = nVotes /\ vote[3] >= 1

\* C29: what TwoBestWin returns has nTrials entries, each 0 or 1, so the sum
\* the notebook passes to binomialCI is in 0..nTrials.
C29_IndicatorVector ==
    (InElection /\ pc = "returned") =>
        /\ Len(ret) = nTrials
        /\ \A t \in 1..Len(ret) : ret[t] \in {0, 1}
        /\ SumSeq(ret) \in 0..nTrials

\* C29's case: two trials, one won and one lost.
C29_Witness ==
    /\ InElection /\ pc = "returned" /\ nTrials = 2
    /\ SumSeq(ret) = 1 /\ ret[2] = 1
====
